---- MODULE Spec2Model ----
(***************************************************************************)
(* Model of src/app.py: the /convert request handler convert_pdf, the      *)
(* orchestrator convert_to_pdfua and the temp files they leave in the      *)
(* temp directory, which outlives every request.  Each request is served   *)
(* by a worker.  Spec is the server that dispatches one request at a time, *)
(* with the full sets of inputs and faults; SpecConc is the threaded       *)
(* server with two requests in flight at a time, with the small sets.      *)
(*                                                                         *)
(* Text is modelled as a sequence of tokens: a character is a one-letter   *)
(* token, a string literal of the source is a single token, and string     *)
(* formatting (f"...{x}") is concatenation.                                *)
(***************************************************************************)
EXTENDS Integers, Sequences, FiniteSets, TLC

----------------------------------------------------------------------------
(* Bounds *)

\* workers of the server
NReq == 2
\* names the temp directory can hand out
NPaths == 3
\* requests the server receives in a behaviour
MaxRequests == 2

Requests == 1..NReq
Paths == 1..NPaths

----------------------------------------------------------------------------
(* Values *)

\* a local variable of convert_pdf that no assignment has bound yet
UNBOUND == "unbound"
UnboundPath == 0

\* no response chosen yet
NoResp == [status |-> 0, kind |-> "none", error |-> <<>>, path |-> 0,
           download_name |-> <<>>]

\* no exception in flight
NoFault == "none"

----------------------------------------------------------------------------
(* Pure functions *)

Lower(c) ==
  CASE c = "P" -> "p"
    [] c = "D" -> "d"
    [] c = "F" -> "f"
    [] c = "E" -> "e"
    [] c = "R" -> "r"
    [] c = "O" -> "o"
    [] OTHER -> c

\* str.lower()
ToLower(s) == [i \in DOMAIN s |-> Lower(s[i])]

\* str.endswith(suffix)
EndsWith(s, suffix) ==
  /\ Len(s) >= Len(suffix)
  /\ SubSeq(s, Len(s) - Len(suffix) + 1, Len(s)) = suffix

\* allowed_file without the suffix test
allowed_file_dot_only(filename) ==
  \E i \in DOMAIN filename : filename[i] = "."

\* allowed_file(filename)
allowed_file(filename) ==
  /\ \E i \in DOMAIN filename : filename[i] = "."
  /\ EndsWith(ToLower(filename), <<".", "p", "d", "f">>)

\* error_msg = gs_result.stderr or "Unknown Ghostscript error"
error_msg(stderr) ==
  IF stderr = <<>> THEN <<"Unknown Ghostscript error">> ELSE stderr
\* gs_outcome without the test of the return code
gs_outcome_ignore_rc(returncode, stderr, vera_available) ==
  IF vera_available
    THEN [next |-> "validate", success |-> UNBOUND, message |-> <<>>]
    ELSE [next |-> "branch", success |-> "True",
          message |-> <<"Conversion completed (veraPDF not available for validation)">>]

\* gs_outcome with the conformance check run also when verapdf is unavailable
gs_outcome_validate_always(returncode, stderr, vera_available) ==
  IF returncode = 0
    THEN [next |-> "validate", success |-> UNBOUND, message |-> <<>>]
    ELSE [next |-> "branch", success |-> "False",
          message |-> <<"Conversion failed: ">> \o error_msg(stderr)]

\* the (success, message) pair convert_to_pdfua returns once gs has exited
gs_outcome(returncode, stderr, vera_available) ==
  IF returncode = 0
    THEN IF vera_available
           THEN [next |-> "validate", success |-> UNBOUND, message |-> <<>>]
           ELSE [next |-> "branch", success |-> "True",
                 message |-> <<"Conversion completed (veraPDF not available for validation)">>]
    ELSE [next |-> "branch", success |-> "False",
          message |-> <<"Conversion failed: ">> \o error_msg(stderr)]

\* validate_cmd = ['verapdf', '--flavour', 'pdfua-1', output_pdf_path]
validate_args(output_pdf_path) ==
  <<"verapdf", "--flavour", "pdfua-1", output_pdf_path>>

\* validate_message with 0 as the compliant exit code
validate_message_zero(returncode) ==
  IF returncode = 0
    THEN <<"Successfully converted to PDF/UA (validated)">>
    ELSE <<"Conversion completed but file may not be fully PDF/UA compliant">>

\* the message convert_to_pdfua returns for a validator exit code
validate_message(returncode) ==
  IF returncode = 1
    THEN <<"Successfully converted to PDF/UA (validated)">>
    ELSE <<"Conversion completed but file may not be fully PDF/UA compliant">>

\* except Exception as e: return False, f"Conversion error: {str(e)}"
conversion_error(e) == <<"Conversion error: ", e>>

\* jsonify({'error': msg}), status
JsonError(msg, status) ==
  [status |-> status, kind |-> "json", error |-> msg, path |-> 0,
   download_name |-> <<>>]

\* send_file(output_path, as_attachment=True, download_name=...)
FileResponse(path, filename) ==
  [status |-> 200, kind |-> "file", error |-> <<>>, path |-> path,
   download_name |-> <<"converted_">> \o filename]

----------------------------------------------------------------------------
(* State *)

VARIABLES
  pc,          \* position of each request in convert_pdf / convert_to_pdfua
  hasField,    \* 'pdf_file' in request.files
  filename,    \* file.filename
  input_path,  \* locals of convert_pdf
  output_path,
  success,
  message,
  vera_available, \* local of convert_to_pdfua
  fault,       \* exception travelling to 'except Exception as e'
  resp,        \* the value the handler returns
  files,       \* the temp directory: state of every path
  created,     \* history: paths each request created, in order
  unlinked,    \* history: paths each request deleted, in order
  released,    \* history: paths whose release the cleanup reached
  tools,       \* history: external processes each request spawned, in order
  gs_result,   \* history: what the convert tool did for the request
  validate_rc, \* history: exit code of the conformance check (-1: none)
  validate_cmd, \* local of convert_to_pdfua: the command of the conformance check
  probe,       \* history: outcome of the availability probe
  atSend,      \* history: state of the output file when send_file opened it
  cleanup_log, \* history: cleanup errors printed
  served,      \* number of requests received so far
  small        \* the behaviour draws inputs and faults from the small sets

vars == <<pc, hasField, filename, input_path, output_path, success, message,
          vera_available, fault, resp, files, created, unlinked, released,
          tools, gs_result, validate_rc, probe, atSend, cleanup_log, served,
          small, validate_cmd>>

----------------------------------------------------------------------------
(* Inputs and faults of the environment *)

\* uploads: the pdf_file form field may be missing; otherwise it has a
\* client-supplied filename
FileNames ==
  IF small
    THEN { <<>>, <<"a", ".", "P", "d", "f">>, <<"a", ".", "t", "x", "t">> }
    ELSE { <<>>,
           <<"a", ".", "P", "d", "f">>,
           <<".", "p", "d", "f">>,
           <<"a", ".", "t", "x", "t">>,
           <<"p", "d", "f">>,
           <<"a", ".", "p", "d">> }

\* error streams the convert tool may leave
StderrSet ==
  IF small
    THEN { <<>> }
    ELSE { <<>>,
           <<"E", "r", "r", "o", "r", ":", "x">>,
           <<"w", "\n", "E", "R", "R", "O", "R">>,
           <<"f", "a", "i", "l">> }

\* exit codes of the tools
GsCodes == {0, 1}
ValidateCodes == IF small THEN {1} ELSE {0, 1, 2}

\* what the convert tool leaves at its output path
GsOutputs == IF small THEN {"data", "absent"} ELSE {"data", "empty", "absent"}

\* outcomes of spawning 'verapdf --version' with check=True
ProbeOutcomes ==
  IF small
    THEN {"ok", "FileNotFoundError"}
    ELSE {"ok", "CalledProcessError", "FileNotFoundError", "PermissionError"}

\* faults of the environment (descriptions, str(e))
IOFaults == IF small THEN {} ELSE {"OSError"}

\* faults of os.unlink
UnlinkFaults == IF small THEN {} ELSE {"PermissionError"}

\* faults of spawning gs or the conformance check
SpawnFaults == IF small THEN {} ELSE {"FileNotFoundError"}

----------------------------------------------------------------------------
(* Initial state *)

NoGs == [returncode |-> -1, stderr |-> <<>>, output |-> "none"]

Init ==
  /\ pc = [r \in Requests |-> "start"]
  /\ hasField = [r \in Requests |-> FALSE]
  /\ filename = [r \in Requests |-> <<>>]
  /\ input_path = [r \in Requests |-> UnboundPath]
  /\ output_path = [r \in Requests |-> UnboundPath]
  /\ success = [r \in Requests |-> UNBOUND]
  /\ message = [r \in Requests |-> <<>>]
  /\ vera_available = [r \in Requests |-> UNBOUND]
  /\ fault = [r \in Requests |-> NoFault]
  /\ resp = [r \in Requests |-> NoResp]
  /\ files = [p \in Paths |-> "absent"]
  /\ created = [r \in Requests |-> <<>>]
  /\ unlinked = [r \in Requests |-> <<>>]
  /\ released = [r \in Requests |-> {}]
  /\ tools = [r \in Requests |-> <<>>]
  /\ gs_result = [r \in Requests |-> NoGs]
  /\ validate_rc = [r \in Requests |-> -1]
  /\ validate_cmd = [r \in Requests |-> <<>>]
  /\ probe = [r \in Requests |-> "none"]
  /\ atSend = [r \in Requests |-> "none"]
  /\ cleanup_log = [r \in Requests |-> <<>>]
  /\ served = 0
  /\ small = FALSE

----------------------------------------------------------------------------
(* convert_pdf: the upload checks *)

\* a POST /convert arrives with its multipart form
Receive(r) ==
  /\ pc[r] = "start"
  /\ served < MaxRequests
  /\ served' = served + 1
  /\ \E f \in BOOLEAN :
       /\ hasField' = [hasField EXCEPT ![r] = f]
       /\ IF f
            THEN \E n \in FileNames : filename' = [filename EXCEPT ![r] = n]
            ELSE UNCHANGED filename
  /\ pc' = [pc EXCEPT ![r] = "check_field"]
  /\ UNCHANGED <<small, validate_cmd, input_path, output_path, success, message, vera_available,
                 fault, resp, files, created, unlinked, released, tools,
                 gs_result, validate_rc, probe, atSend, cleanup_log>>

\* the handler returns without entering the try block
EarlyReturn(r, msg) ==
  /\ resp' = [resp EXCEPT ![r] = JsonError(<<msg>>, 400)]
  /\ pc' = [pc EXCEPT ![r] = "returned"]

\* check_next with the suffix check before the empty-filename check
check_next_suffix_first(pos) ==
  CASE pos = "check_field" -> [next |-> "check_ext", error |-> "No file uploaded"]
    [] pos = "check_ext" -> [next |-> "check_name", error |-> "File must be a PDF"]
    [] pos = "check_name" -> [next |-> "alloc_input", error |-> "No file selected"]

\* the position after the check at pos, and the error it reports when it fails
check_next(pos) ==
  CASE pos = "check_field" -> [next |-> "check_name", error |-> "No file uploaded"]
    [] pos = "check_name" -> [next |-> "check_ext", error |-> "No file selected"]
    [] pos = "check_ext" -> [next |-> "alloc_input", error |-> "File must be a PDF"]

\* if 'pdf_file' not in request.files
CheckField(r) ==
  /\ pc[r] = "check_field"
  /\ IF ~hasField[r]
       THEN EarlyReturn(r, check_next("check_field").error)
       ELSE /\ pc' = [pc EXCEPT ![r] = check_next("check_field").next]
            /\ UNCHANGED resp
  /\ UNCHANGED <<small, validate_cmd, served, hasField, filename, input_path, output_path, success, message,
                 vera_available, fault, files, created, unlinked, released,
                 tools, gs_result, validate_rc, probe, atSend, cleanup_log>>

\* if file.filename == ''
CheckName(r) ==
  /\ pc[r] = "check_name"
  /\ IF filename[r] = <<>>
       THEN EarlyReturn(r, check_next("check_name").error)
       ELSE /\ pc' = [pc EXCEPT ![r] = check_next("check_name").next]
            /\ UNCHANGED resp
  /\ UNCHANGED <<small, validate_cmd, served, hasField, filename, input_path, output_path, success, message,
                 vera_available, fault, files, created, unlinked, released,
                 tools, gs_result, validate_rc, probe, atSend, cleanup_log>>

\* if not allowed_file(file.filename)
CheckExt(r) ==
  /\ pc[r] = "check_ext"
  /\ IF ~allowed_file(filename[r])
       THEN EarlyReturn(r, check_next("check_ext").error)
       ELSE /\ pc' = [pc EXCEPT ![r] = check_next("check_ext").next]
            /\ UNCHANGED resp
  /\ UNCHANGED <<small, validate_cmd, served, hasField, filename, input_path, output_path, success, message,
                 vera_available, fault, files, created, unlinked, released,
                 tools, gs_result, validate_rc, probe, atSend, cleanup_log>>

----------------------------------------------------------------------------
(* convert_pdf: the try block *)

\* an exception leaves the try block for 'except Exception as e'
Raise(r, e) ==
  /\ fault' = [fault EXCEPT ![r] = e]
  /\ pc' = [pc EXCEPT ![r] = "except"]

\* a name NamedTemporaryFile may pick: no file of that name exists (O_EXCL)
free(p) == files[p] = "absent"

\* the faults of NamedTemporaryFile: an I/O fault, or no name left to try
alloc_faults ==
  IOFaults \cup (IF \A p \in Paths : ~free(p) THEN {"FileExistsError"} ELSE {})

\* tempfile.NamedTemporaryFile(suffix='.pdf', delete=False): creates an empty
\* file under a name no existing file has, or raises
AllocInput(r) ==
  /\ pc[r] = "alloc_input"
  /\ \/ \E p \in Paths :
          /\ free(p)
          /\ files' = [files EXCEPT ![p] = "empty"]
          /\ input_path' = [input_path EXCEPT ![r] = p]
          /\ created' = [created EXCEPT ![r] = Append(@, p)]
          /\ pc' = [pc EXCEPT ![r] = "alloc_output"]
          /\ UNCHANGED fault
     \/ \E e \in alloc_faults :
          /\ Raise(r, e)
          /\ UNCHANGED <<files, input_path, created>>
  /\ UNCHANGED <<small, validate_cmd, served, hasField, filename, output_path, success, message,
                 vera_available, resp, unlinked, released, tools, gs_result,
                 validate_rc, probe, atSend, cleanup_log>>

AllocOutput(r) ==
  /\ pc[r] = "alloc_output"
  /\ \/ \E p \in Paths :
          /\ free(p)
          /\ files' = [files EXCEPT ![p] = "empty"]
          /\ output_path' = [output_path EXCEPT ![r] = p]
          /\ created' = [created EXCEPT ![r] = Append(@, p)]
          /\ pc' = [pc EXCEPT ![r] = "save"]
          /\ UNCHANGED fault
     \/ \E e \in alloc_faults :
          /\ Raise(r, e)
          /\ UNCHANGED <<files, output_path, created>>
  /\ UNCHANGED <<small, validate_cmd, served, hasField, filename, input_path, success, message,
                 vera_available, resp, unlinked, released, tools, gs_result,
                 validate_rc, probe, atSend, cleanup_log>>

\* file.save(input_path): writes the upload to the path, or raises
Save(r) ==
  /\ pc[r] = "save"
  /\ \/ /\ files' = [files EXCEPT ![input_path[r]] = "data"]
        /\ pc' = [pc EXCEPT ![r] = "probe"]
        /\ UNCHANGED fault
     \/ \E e \in IOFaults :
          /\ Raise(r, e)
          /\ UNCHANGED files
  /\ UNCHANGED <<small, validate_cmd, served, hasField, filename, input_path, output_path, success, message,
                 vera_available, resp, created, unlinked, released, tools,
                 gs_result, validate_rc, probe, atSend, cleanup_log>>

----------------------------------------------------------------------------
(* convert_to_pdfua *)
\* probe_caught with a handler for every exception
probe_caught_all(outcome) == outcome # "ok"

\* except (subprocess.CalledProcessError, FileNotFoundError)
probe_caught(outcome) == outcome \in {"CalledProcessError", "FileNotFoundError"}
\* Return with one more run of gs after a failure outcome
Return_retry(r, ok, msg) ==
  /\ success' = [success EXCEPT ![r] = ok]
  /\ message' = [message EXCEPT ![r] = msg]
  /\ pc' = [pc EXCEPT ![r] =
              IF ok = "False" /\ \A i \in DOMAIN tools[r] : tools[r][i] # "gs"
                THEN "gs" ELSE "branch"]

\* convert_to_pdfua returns (ok, msg) and convert_pdf binds success, message
Return(r, ok, msg) ==
  /\ success' = [success EXCEPT ![r] = ok]
  /\ message' = [message EXCEPT ![r] = msg]
  /\ pc' = [pc EXCEPT ![r] = "branch"]

\* subprocess.run(['verapdf', '--version'], capture_output=True, check=True)
Probe(r) ==
  /\ pc[r] = "probe"
  /\ tools' = [tools EXCEPT ![r] = Append(@, "probe")]
  /\ \E o \in ProbeOutcomes :
       /\ probe' = [probe EXCEPT ![r] = o]
       /\ IF o = "ok" \/ probe_caught(o)
            THEN /\ vera_available' = [vera_available EXCEPT ![r] =
                                         IF o = "ok" THEN "True" ELSE "False"]
                 /\ pc' = [pc EXCEPT ![r] = "gs"]
                 /\ UNCHANGED <<success, message>>
            ELSE /\ Return(r, "False", conversion_error(o))
                 /\ UNCHANGED vera_available
  /\ UNCHANGED <<small, validate_cmd, served, hasField, filename, input_path, output_path, fault, resp,
                 files, created, unlinked, released, gs_result, validate_rc,
                 atSend, cleanup_log>>

\* gs_result = subprocess.run(gs_cmd, capture_output=True, text=True) and the
\* branch on its return code
RunGs(r) ==
  /\ pc[r] = "gs"
  /\ tools' = [tools EXCEPT ![r] = Append(@, "gs")]
  /\ \/ \E rc \in GsCodes, out \in GsOutputs :
          \E err \in (IF rc = 0 THEN {<<>>} ELSE StderrSet) :
            LET o == gs_outcome(rc, err, vera_available[r] = "True") IN
              /\ gs_result' = [gs_result EXCEPT ![r] =
                                 [returncode |-> rc, stderr |-> err, output |-> out]]
              /\ files' = [files EXCEPT ![output_path[r]] = out]
              /\ IF o.next = "validate"
                   THEN /\ pc' = [pc EXCEPT ![r] = "validate"]
                        /\ UNCHANGED <<success, message>>
                   ELSE Return(r, o.success, o.message)
     \/ \E e \in SpawnFaults :
          /\ Return(r, "False", conversion_error(e))
          /\ UNCHANGED <<gs_result, files>>
  /\ UNCHANGED <<small, validate_cmd, served, hasField, filename, input_path, output_path, vera_available,
                 fault, resp, created, unlinked, released, validate_rc, probe,
                 atSend, cleanup_log>>
\* Validate with an orchestrator that deletes the output file when the
\* conformance check cannot be spawned
Validate_cleans(r) ==
  /\ pc[r] = "validate"
  /\ tools' = [tools EXCEPT ![r] = Append(@, "validate")]
  /\ validate_cmd' = [validate_cmd EXCEPT ![r] = validate_args(output_path[r])]
  /\ \/ \E rc \in ValidateCodes :
          /\ validate_rc' = [validate_rc EXCEPT ![r] = rc]
          /\ Return(r, "True", validate_message(rc))
          /\ UNCHANGED <<files, unlinked>>
     \/ \E e \in SpawnFaults :
          /\ Return(r, "False", conversion_error(e))
          /\ files' = [files EXCEPT ![output_path[r]] = "absent"]
          /\ unlinked' = [unlinked EXCEPT ![r] = Append(@, output_path[r])]
          /\ UNCHANGED validate_rc
  /\ UNCHANGED <<small, served, hasField, filename, input_path, output_path, vera_available,
                 fault, resp, created, released, gs_result,
                 probe, atSend, cleanup_log>>

\* validate_result = subprocess.run(validate_cmd, ...) and the branch on its
\* return code
Validate(r) ==
  /\ pc[r] = "validate"
  /\ tools' = [tools EXCEPT ![r] = Append(@, "validate")]
  /\ validate_cmd' = [validate_cmd EXCEPT ![r] = validate_args(output_path[r])]
  /\ \/ \E rc \in ValidateCodes :
          /\ validate_rc' = [validate_rc EXCEPT ![r] = rc]
          /\ Return(r, "True", validate_message(rc))
     \/ \E e \in SpawnFaults :
          /\ Return(r, "False", conversion_error(e))
          /\ UNCHANGED validate_rc
  /\ UNCHANGED <<small, served, hasField, filename, input_path, output_path, vera_available,
                 fault, resp, files, created, unlinked, released, gs_result,
                 probe, atSend, cleanup_log>>

----------------------------------------------------------------------------
(* convert_pdf: the response *)
\* SendFile with a handler that waits until the output file exists
SendFile_wait(r) ==
  /\ pc[r] = "branch"
  /\ success[r] = "True"
  /\ files[output_path[r]] # "absent"
  /\ \/ /\ resp' = [resp EXCEPT ![r] = FileResponse(output_path[r], filename[r])]
        /\ atSend' = [atSend EXCEPT ![r] = files[output_path[r]]]
        /\ pc' = [pc EXCEPT ![r] = "finally"]
        /\ UNCHANGED fault
     \/ \E e \in IOFaults :
          /\ Raise(r, e)
          /\ UNCHANGED <<resp, atSend>>
  /\ UNCHANGED <<small, validate_cmd, served, hasField, filename, input_path, output_path, success, message,
                 vera_available, files, created, unlinked, released, tools,
                 gs_result, validate_rc, probe, cleanup_log>>

\* if success: return send_file(output_path, ...); send_file opens the path
\* and raises when it cannot
SendFile(r) ==
  /\ pc[r] = "branch"
  /\ success[r] = "True"
  /\ \/ /\ files[output_path[r]] # "absent"
        /\ resp' = [resp EXCEPT ![r] = FileResponse(output_path[r], filename[r])]
        /\ atSend' = [atSend EXCEPT ![r] = files[output_path[r]]]
        /\ pc' = [pc EXCEPT ![r] = "finally"]
        /\ UNCHANGED fault
     \/ \E e \in IOFaults \cup {"FileNotFoundError"} :
          /\ e = "FileNotFoundError" <=> files[output_path[r]] = "absent"
          /\ Raise(r, e)
          /\ UNCHANGED <<resp, atSend>>
  /\ UNCHANGED <<small, validate_cmd, served, hasField, filename, input_path, output_path, success, message,
                 vera_available, files, created, unlinked, released, tools,
                 gs_result, validate_rc, probe, cleanup_log>>

\* else: return jsonify({'error': message}), 500
ReturnFailure(r) ==
  /\ pc[r] = "branch"
  /\ success[r] = "False"
  /\ resp' = [resp EXCEPT ![r] = JsonError(message[r], 500)]
  /\ pc' = [pc EXCEPT ![r] = "finally"]
  /\ UNCHANGED <<small, validate_cmd, served, hasField, filename, input_path, output_path, success, message,
                 vera_available, fault, files, created, unlinked, released,
                 tools, gs_result, validate_rc, probe, atSend, cleanup_log>>
\* Except with a handler that lets the exception go on to the caller
Except_reraise(r) ==
  /\ pc[r] = "except"
  /\ pc' = [pc EXCEPT ![r] = "finally"]
  /\ UNCHANGED <<small, validate_cmd, served, hasField, filename, input_path, output_path, success, message,
                 vera_available, files, created, unlinked, released, tools,
                 gs_result, validate_rc, probe, atSend, cleanup_log, fault, resp>>

\* except Exception as e: return jsonify({'error': f'Processing error: {str(e)}'}), 500
Except(r) ==
  /\ pc[r] = "except"
  /\ resp' = [resp EXCEPT ![r] = JsonError(<<"Processing error: ", fault[r]>>, 500)]
  /\ fault' = [fault EXCEPT ![r] = NoFault]
  /\ pc' = [pc EXCEPT ![r] = "finally"]
  /\ UNCHANGED <<small, validate_cmd, served, hasField, filename, input_path, output_path, success, message,
                 vera_available, files, created, unlinked, released, tools,
                 gs_result, validate_rc, probe, atSend, cleanup_log>>

----------------------------------------------------------------------------
(* convert_pdf: the finally block *)

\* except Exception as cleanup_error: print(...); the handler then returns
CleanupError(r, e) ==
  /\ cleanup_log' = [cleanup_log EXCEPT ![r] = Append(@, e)]
  /\ pc' = [pc EXCEPT ![r] = "returned"]

\* what 'if input_path and os.path.exists(input_path): os.unlink(input_path)'
\* does, given whether the local is bound and whether the file exists
input_cleanup(bound, exists) ==
  IF ~bound THEN "NameError"
  ELSE IF exists THEN "unlink"
  ELSE "skip"

\* output_cleanup without the 'if not success' test
output_cleanup_always(bound, exists, ok) ==
  IF ~bound THEN "NameError"
  ELSE IF ~exists THEN "skip"
  ELSE "unlink"

\* what 'if output_path and os.path.exists(output_path): if not success:
\* os.unlink(output_path)' does
output_cleanup(bound, exists, ok) ==
  IF ~bound THEN "NameError"
  ELSE IF ~exists THEN "skip"
  ELSE IF ok = UNBOUND THEN "NameError"
  ELSE IF ok = "False" THEN "unlink"
  ELSE "keep"

\* os.unlink(p) by request r: deletes the file or raises
Unlink(r, p, next) ==
  \/ /\ files' = [files EXCEPT ![p] = "absent"]
     /\ unlinked' = [unlinked EXCEPT ![r] = Append(@, p)]
     /\ released' = [released EXCEPT ![r] = @ \cup {p}]
     /\ pc' = [pc EXCEPT ![r] = next]
     /\ UNCHANGED cleanup_log
  \/ \E e \in UnlinkFaults :
       /\ CleanupError(r, e)
       /\ released' = [released EXCEPT ![r] = @ \cup {p}]
       /\ UNCHANGED <<files, unlinked>>

CleanupInput(r) ==
  /\ pc[r] = "finally"
  /\ LET p == input_path[r]
         bound == p # UnboundPath
         step == input_cleanup(bound, bound /\ files[p] # "absent") IN
       CASE step = "NameError" ->
              /\ CleanupError(r, "NameError")
              /\ UNCHANGED <<files, unlinked, released>>
         [] step = "unlink" -> Unlink(r, p, "cleanup_output")
         [] step = "skip" ->
              /\ released' = [released EXCEPT ![r] = @ \cup {p}]
              /\ pc' = [pc EXCEPT ![r] = "cleanup_output"]
              /\ UNCHANGED <<files, unlinked, cleanup_log>>
  /\ UNCHANGED <<small, validate_cmd, served, hasField, filename, input_path, output_path, success, message,
                 vera_available, fault, resp, created, tools, gs_result,
                 validate_rc, probe, atSend>>

CleanupOutput(r) ==
  /\ pc[r] = "cleanup_output"
  /\ LET p == output_path[r]
         bound == p # UnboundPath
         step == output_cleanup(bound, bound /\ files[p] # "absent", success[r]) IN
       CASE step = "NameError" ->
              /\ CleanupError(r, "NameError")
              /\ UNCHANGED <<files, unlinked, released>>
         [] step = "unlink" -> Unlink(r, p, "returned")
         [] step = "skip" ->
              /\ released' = [released EXCEPT ![r] = @ \cup {p}]
              /\ pc' = [pc EXCEPT ![r] = "returned"]
              /\ UNCHANGED <<files, unlinked, cleanup_log>>
         [] step = "keep" ->
              /\ pc' = [pc EXCEPT ![r] = "returned"]
              /\ UNCHANGED <<files, unlinked, released, cleanup_log>>
  /\ UNCHANGED <<small, validate_cmd, served, hasField, filename, input_path, output_path, success, message,
                 vera_available, fault, resp, created, tools, gs_result,
                 validate_rc, probe, atSend>>

\* the server has sent the response (for a file response: streamed the file
\* to its end and closed it)
Complete(r) ==
  /\ pc[r] = "returned"
  /\ pc' = [pc EXCEPT ![r] = "complete"]
  /\ UNCHANGED <<small, validate_cmd, served, hasField, filename, input_path, output_path, success, message,
                 vera_available, fault, resp, files, created, unlinked,
                 released, tools, gs_result, validate_rc, probe, atSend,
                 cleanup_log>>

\* the worker is done with the request: its frame is discarded and it waits
\* for the next request
Recycle(r) ==
  /\ pc[r] = "complete"
  /\ pc' = [pc EXCEPT ![r] = "start"]
  /\ hasField' = [hasField EXCEPT ![r] = FALSE]
  /\ filename' = [filename EXCEPT ![r] = <<>>]
  /\ input_path' = [input_path EXCEPT ![r] = UnboundPath]
  /\ output_path' = [output_path EXCEPT ![r] = UnboundPath]
  /\ success' = [success EXCEPT ![r] = UNBOUND]
  /\ message' = [message EXCEPT ![r] = <<>>]
  /\ vera_available' = [vera_available EXCEPT ![r] = UNBOUND]
  /\ resp' = [resp EXCEPT ![r] = NoResp]
  /\ created' = [created EXCEPT ![r] = <<>>]
  /\ unlinked' = [unlinked EXCEPT ![r] = <<>>]
  /\ released' = [released EXCEPT ![r] = {}]
  /\ tools' = [tools EXCEPT ![r] = <<>>]
  /\ gs_result' = [gs_result EXCEPT ![r] = NoGs]
  /\ validate_rc' = [validate_rc EXCEPT ![r] = -1]
  /\ validate_cmd' = [validate_cmd EXCEPT ![r] = <<>>]
  /\ probe' = [probe EXCEPT ![r] = "none"]
  /\ atSend' = [atSend EXCEPT ![r] = "none"]
  /\ cleanup_log' = [cleanup_log EXCEPT ![r] = <<>>]
  /\ UNCHANGED <<fault, files, served, small>>

----------------------------------------------------------------------------
(* Specification *)

\* no other worker is handling a request
OthersIdle(r) == \A q \in Requests \ {r} : pc[q] = "start"

Next ==
  \E r \in Requests :
    \/ OthersIdle(r) /\ Receive(r)
    \/ CheckField(r)
    \/ CheckName(r)
    \/ CheckExt(r)
    \/ AllocInput(r)
    \/ AllocOutput(r)
    \/ Save(r)
    \/ Probe(r)
    \/ RunGs(r)
    \/ Validate(r)
    \/ SendFile(r)
    \/ ReturnFailure(r)
    \/ Except(r)
    \/ CleanupInput(r)
    \/ CleanupOutput(r)
    \/ Complete(r)
    \/ Recycle(r)

Spec == Init /\ [][Next]_vars

\* the threaded server: a request is dispatched to an idle worker while
\* another worker is in the middle of its request
InitConc ==
  /\ pc = [r \in Requests |-> "start"]
  /\ hasField = [r \in Requests |-> FALSE]
  /\ filename = [r \in Requests |-> <<>>]
  /\ input_path = [r \in Requests |-> UnboundPath]
  /\ output_path = [r \in Requests |-> UnboundPath]
  /\ success = [r \in Requests |-> UNBOUND]
  /\ message = [r \in Requests |-> <<>>]
  /\ vera_available = [r \in Requests |-> UNBOUND]
  /\ fault = [r \in Requests |-> NoFault]
  /\ resp = [r \in Requests |-> NoResp]
  /\ files = [p \in Paths |-> "absent"]
  /\ created = [r \in Requests |-> <<>>]
  /\ unlinked = [r \in Requests |-> <<>>]
  /\ released = [r \in Requests |-> {}]
  /\ tools = [r \in Requests |-> <<>>]
  /\ gs_result = [r \in Requests |-> NoGs]
  /\ validate_rc = [r \in Requests |-> -1]
  /\ validate_cmd = [r \in Requests |-> <<>>]
  /\ probe = [r \in Requests |-> "none"]
  /\ atSend = [r \in Requests |-> "none"]
  /\ cleanup_log = [r \in Requests |-> <<>>]
  /\ served = 0
  /\ small = TRUE

\* what a worker does with the request it was given
Step(r) ==
  \/ CheckField(r)
  \/ CheckName(r)
  \/ CheckExt(r)
  \/ AllocInput(r)
  \/ AllocOutput(r)
  \/ Save(r)
  \/ Probe(r)
  \/ RunGs(r)
  \/ Validate(r)
  \/ SendFile(r)
  \/ ReturnFailure(r)
  \/ Except(r)
  \/ CleanupInput(r)
  \/ CleanupOutput(r)
  \/ Complete(r)

\* at most one other worker is handling a request
OneOtherBusy(r) ==
  \E q \in Requests : \A o \in Requests \ {r, q} : pc[o] = "start"

NextConc ==
  \E r \in Requests :
    \/ OneOtherBusy(r) /\ Receive(r)
    \/ Step(r)
    \/ Recycle(r)

SpecConc == InitConc /\ [][NextConc]_vars

\* the threaded server under a fair scheduler: a request that can take a
\* step takes one (every external process exits, every thread gets to run)
FairSpecConc == SpecConc /\ \A r \in Requests : WF_vars(Step(r))

----------------------------------------------------------------------------
(* Properties *)

\* the handler has returned its response
Done(r) == pc[r] \in {"returned", "complete"}

\* the set of elements of a sequence
Range(s) == {s[i] : i \in DOMAIN s}

\* the filename ends in '.pdf', case-insensitively
EndsWithPdf(f) ==
  /\ Len(f) >= 4
  /\ Lower(f[Len(f) - 3]) = "."
  /\ Lower(f[Len(f) - 2]) = "p"
  /\ Lower(f[Len(f) - 1]) = "d"
  /\ Lower(f[Len(f)]) = "f"

\* os.unlink raised during the cleanup of request r
UnlinkFailed(r) == \E i \in DOMAIN cleanup_log[r] : cleanup_log[r][i] \in UnlinkFaults

\* the request passed the upload checks and a fault left the try block
\* before convert_to_pdfua returned (allocation or file.save raised)
FaultBeforeConversion(r) ==
  /\ hasField[r]
  /\ allowed_file(filename[r])
  /\ success[r] = UNBOUND
  /\ tools[r] = <<>>

\* C1: once a request is complete, no temp file it created still exists and
\* none was deleted twice (as many releases as allocations, on every exit
\* path); stated for the requests whose deletions all went through
C1_NoLeakNoDoubleRelease ==
  \A r \in Requests :
    (pc[r] = "complete" /\ ~UnlinkFailed(r)) =>
      /\ \A p \in Range(created[r]) : files[p] = "absent"
      /\ Cardinality(Range(unlinked[r])) = Len(unlinked[r])

\* the failure message of an empty result
EmptyResultMessage == <<"Conversion failed: ", "conversion completed but output file is empty">>

\* C2: when gs exits 0 and its output is absent or zero-length, the outcome
\* convert_to_pdfua returns is a failure with the empty-result message
C2_EmptyOutputIsFailure ==
  \A r \in Requests :
    ( /\ success[r] # UNBOUND
      /\ gs_result[r].returncode = 0
      /\ gs_result[r].output \in {"empty", "absent"} ) =>
      /\ success[r] = "False"
      /\ message[r] = EmptyResultMessage

\* C3 as stated: every upload whose filename does not end in '.pdf' gets
\* 400 'File must be a PDF', with no tool invoked and no temp file created
C3_NonPdfGetsFileMustBePdf ==
  \A r \in Requests :
    (hasField[r] /\ ~EndsWithPdf(filename[r])) =>
      /\ tools[r] = <<>>
      /\ created[r] = <<>>
      /\ Done(r) => resp[r] = JsonError(<<"File must be a PDF">>, 400)

\* C3 as amended: every upload whose filename does not end in '.pdf' gets a
\* 400 with no tool invoked and no temp file created at any point of the
\* request; the error is 'File must be a PDF' when the filename is non-empty
C3_NonPdfRejected ==
  \A r \in Requests :
    (hasField[r] /\ ~EndsWithPdf(filename[r])) =>
      /\ tools[r] = <<>>
      /\ created[r] = <<>>
      /\ pc[r] \in {"check_field", "check_name", "check_ext", "returned", "complete"}
      /\ Done(r) =>
           /\ resp[r].status = 400
           /\ resp[r].kind = "json"
           /\ filename[r] # <<>> => resp[r] = JsonError(<<"File must be a PDF">>, 400)

C3_Witness ==
  \E r \in Requests :
    /\ Done(r)
    /\ hasField[r]
    /\ filename[r] = <<"a", ".", "t", "x", "t">>
    /\ resp[r] = JsonError(<<"File must be a PDF">>, 400)

\* C4: the checks run in the order field, filename, suffix; the first one
\* that fails alone decides the 400 response, and a request with a missing
\* field or an empty filename never allocates a temp file
C4_CheckOrder ==
  \A r \in Requests :
    /\ (pc[r] # "start" /\ (~hasField[r] \/ filename[r] = <<>>)) =>
         /\ created[r] = <<>>
         /\ pc[r] \in {"check_field", "check_name", "returned", "complete"}
    /\ Done(r) =>
         /\ ~hasField[r] => resp[r] = JsonError(<<"No file uploaded">>, 400)
         /\ (hasField[r] /\ filename[r] = <<>>) =>
              resp[r] = JsonError(<<"No file selected">>, 400)
         /\ (hasField[r] /\ filename[r] # <<>> /\ ~EndsWithPdf(filename[r])) =>
              resp[r] = JsonError(<<"File must be a PDF">>, 400)
         /\ (hasField[r] /\ EndsWithPdf(filename[r])) => resp[r].status # 400

C4_Witness ==
  \E r \in Requests :
    /\ pc[r] = "complete"
    /\ hasField[r]
    /\ filename[r] = <<>>
    /\ resp[r] = JsonError(<<"No file selected">>, 400)

\* index of the first line break of s, 0 when there is none
FirstLF(s) ==
  IF \E i \in DOMAIN s : s[i] = "\n"
    THEN CHOOSE i \in DOMAIN s : s[i] = "\n" /\ \A j \in 1..(i - 1) : s[j] # "\n"
    ELSE 0

\* the lines of a text
RECURSIVE SplitLines(_)
SplitLines(s) ==
  IF s = <<>> THEN <<>>
  ELSE IF FirstLF(s) = 0 THEN <<s>>
  ELSE <<SubSeq(s, 1, FirstLF(s) - 1)>> \o SplitLines(SubSeq(s, FirstLF(s) + 1, Len(s)))

\* the line contains the token 'error', case-insensitively
HasErrorToken(line) ==
  \E i \in 1..(Len(line) - 4) :
    SubSeq(ToLower(line), i, i + 4) = <<"e", "r", "r", "o", "r">>

\* the detail the failure message is to carry for an error stream: its first
\* line with an 'error' token, else the raw stream, else the generic string
ExpectedDetail(stderr) ==
  LET errs == SelectSeq(SplitLines(stderr), HasErrorToken) IN
    IF errs # <<>> THEN Head(errs)
    ELSE IF stderr # <<>> THEN stderr
    ELSE <<"Unknown Ghostscript error">>

\* C5: when gs exits non-zero the failure message carries the first line of
\* its error stream that has an 'error' token (and not the lines before it),
\* else the raw stream, else the generic unknown-error string
C5_MessageCarriesFirstErrorLine ==
  \A r \in Requests :
    (success[r] # UNBOUND /\ gs_result[r].returncode \notin {0, -1}) =>
      message[r] = <<"Conversion failed: ">> \o ExpectedDetail(gs_result[r].stderr)

\* the probe found no usable validator
ProbeUnavailable(r) ==
  probe[r] \in {"CalledProcessError", "FileNotFoundError", "PermissionError"}

SkippedMessage == <<"Conversion completed (veraPDF not available for validation)">>

\* C6: with the validator unavailable (the probe failed to spawn for whatever
\* reason, or exited non-zero), a convert tool that exits 0 gives success with
\* the validation-skipped message, and a failure outcome is never due to the
\* validator: it occurs only when the convert tool ran and did not exit 0
C6_UnavailableValidatorNeverFails ==
  \A r \in Requests :
    (success[r] # UNBOUND /\ ProbeUnavailable(r)) =>
      /\ gs_result[r].returncode = 0 =>
           (success[r] = "True" /\ message[r] = SkippedMessage)
      /\ success[r] = "False" =>
           (\E i \in DOMAIN tools[r] : tools[r][i] = "gs")

\* C7: when gs exited 0 and the validator is available, the outcome is a
\* success for every exit code of the conformance check; the message is the
\* 'validated' one exactly when that code is 1, the 'may not be fully
\* compliant' one for every other code
C7_ValidatorAdvisory ==
  \A r \in Requests :
    ( /\ gs_result[r].returncode = 0
      /\ vera_available[r] = "True"
      /\ validate_rc[r] # -1 ) =>
      /\ success[r] = "True"
      /\ validate_rc[r] = 1 =>
           message[r] = <<"Successfully converted to PDF/UA (validated)">>
      /\ validate_rc[r] # 1 =>
           message[r] = <<"Conversion completed but file may not be fully PDF/UA compliant">>

C7_Witness ==
  \E r \in Requests :
    /\ Done(r)
    /\ validate_rc[r] = 2
    /\ success[r] = "True"
    /\ resp[r].status = 200

\* C8: a fault of temp-file allocation or of file.save gives a 500
\* 'Processing error' response, and every temp file the request had created
\* is gone when the handler returns; stated for the requests whose deletions
\* all went through
C8_FaultReleasesCreatedFiles ==
  \A r \in Requests :
    (Done(r) /\ FaultBeforeConversion(r) /\ ~UnlinkFailed(r)) =>
      /\ resp[r].status = 500
      /\ resp[r].kind = "json"
      /\ Len(resp[r].error) = 2 /\ resp[r].error[1] = "Processing error: "
      /\ \A p \in Range(created[r]) : files[p] = "absent"

\* C9 as stated: a successful outcome (the convert tool did write its
\* output) gives a 200 file response named 'converted_' + filename, the
\* cleanup releases the input only, and the output file exists up to the
\* completion of the response
C9_SuccessReturns200 ==
  \A r \in Requests :
    (Done(r) /\ success[r] = "True" /\ gs_result[r].output = "data") =>
      /\ resp[r] = FileResponse(output_path[r], filename[r])
      /\ input_path[r] \in released[r]
      /\ output_path[r] \notin Range(unlinked[r])
      /\ files[output_path[r]] # "absent"

\* C9 as amended: on a successful outcome, when send_file returns, the
\* response is the 200 file response named 'converted_' + filename, and from
\* then up to the completion of the response the output file exists; when
\* send_file raises, the response is a 500 'Processing error'; either way
\* the cleanup reaches the release of the input and deletes nothing else
C9_SuccessStreamsOutput ==
  \A r \in Requests :
    /\ resp[r].kind = "file" =>
         /\ success[r] = "True"
         /\ resp[r] = FileResponse(output_path[r], filename[r])
         /\ files[output_path[r]] # "absent"
    /\ success[r] = "True" =>
         /\ Range(unlinked[r]) \subseteq {input_path[r]}
         /\ Done(r) =>
              /\ input_path[r] \in released[r]
              /\ atSend[r] # "none" => resp[r] = FileResponse(output_path[r], filename[r])
              /\ atSend[r] = "none" =>
                   /\ resp[r].status = 500
                   /\ resp[r].error[1] = "Processing error: "

C9_Witness ==
  \E r \in Requests :
    /\ pc[r] = "complete"
    /\ resp[r].status = 200
    /\ resp[r].download_name = <<"converted_", "a", ".", "P", "d", "f">>
    /\ unlinked[r] = <<input_path[r]>>
    /\ files[output_path[r]] = "data"

\* C10: on a failure outcome of convert_to_pdfua the response is a 500 whose
\* error is exactly the returned message, and the cleanup has released both
\* temp files (reached the release of each) when the handler returns
C10_FailureReleasesBoth ==
  \A r \in Requests :
    (Done(r) /\ success[r] = "False") =>
      /\ resp[r] = JsonError(message[r], 500)
      /\ input_path[r] \in released[r]
      /\ output_path[r] \in released[r]

\* the number of entries of a sequence that equal x
Count(seq, x) == Cardinality({i \in DOMAIN seq : seq[i] = x})

\* the last external process request r spawned ("none": no process yet)
LastTool(r) == IF tools[r] = <<>> THEN "none" ELSE tools[r][Len(tools[r])]

\* spawning gs raised in request r
GsSpawnFailed(r) ==
  success[r] # UNBOUND /\ LastTool(r) = "gs" /\ gs_result[r] = NoGs

\* spawning the conformance check raised in request r
ValidateSpawnFailed(r) ==
  success[r] # UNBOUND /\ LastTool(r) = "validate" /\ validate_rc[r] = -1

\* C11 as stated: every fault raised while probing, converting or validating
\* ends in the outcome (False, 'Conversion error: <description>'), and none
\* reaches the handler
C11_EveryFaultIsConversionError ==
  \A r \in Requests :
    /\ pc[r] = "except" => (tools[r] = <<>> \/ success[r] # UNBOUND)
    /\ (success[r] # UNBOUND /\ probe[r] \notin {"none", "ok"}) =>
         (success[r] = "False" /\ message[r] = conversion_error(probe[r]))
    /\ (GsSpawnFailed(r) \/ ValidateSpawnFailed(r)) =>
         /\ success[r] = "False"
         /\ \E e \in SpawnFaults : message[r] = conversion_error(e)

\* C11 as amended: no fault raised while probing, converting or validating
\* reaches the handler, which always receives a (success, message) pair; a
\* fault of spawning gs or the conformance check, and a probe fault other
\* than CalledProcessError and FileNotFoundError, ends in the outcome
\* (False, 'Conversion error: <description>'); those two probe faults only
\* mark the validator unavailable and the conversion goes on
C11_NoFaultEscapes ==
  \A r \in Requests :
    /\ pc[r] = "except" => (tools[r] = <<>> \/ success[r] # UNBOUND)
    /\ pc[r] \in {"branch", "finally", "cleanup_output"} =>
         (tools[r] = <<>> \/ success[r] \in {"True", "False"})
    /\ (success[r] # UNBOUND /\ probe[r] = "PermissionError") =>
         (success[r] = "False" /\ message[r] = conversion_error(probe[r]))
    /\ probe[r] \in {"CalledProcessError", "FileNotFoundError"} =>
         /\ vera_available[r] = "False"
         /\ LastTool(r) = "probe" => pc[r] = "gs"
    /\ (GsSpawnFailed(r) \/ ValidateSpawnFailed(r)) =>
         /\ success[r] = "False"
         /\ \E e \in SpawnFaults : message[r] = conversion_error(e)

C11_Witness ==
  \E r \in Requests :
    /\ Done(r)
    /\ GsSpawnFailed(r)
    /\ message[r] = <<"Conversion error: ", "FileNotFoundError">>
    /\ resp[r] = JsonError(message[r], 500)

\* C12: within a request gs is run at most once and the conformance check at
\* most once, and a tool failure (non-zero exit of gs, a spawn fault) is
\* followed by no further tool run: the outcome is returned at once
C12_NoRetries ==
  \A r \in Requests :
    /\ Count(tools[r], "gs") <= 1
    /\ Count(tools[r], "validate") <= 1
    /\ Count(tools[r], "probe") <= 1
    /\ success[r] = "False" => pc[r] \in {"branch", "finally", "cleanup_output",
                                          "returned", "complete"}
    /\ (gs_result[r].returncode > 0 \/ GsSpawnFailed(r)) =>
         (LastTool(r) = "gs" /\ success[r] = "False")

C12_Witness ==
  \E r \in Requests :
    /\ pc[r] = "complete"
    /\ gs_result[r].returncode = 1
    /\ tools[r] = <<"probe", "gs">>
    /\ resp[r].status = 500

\* C13: no validate-tool process (probe or conformance check) is started
\* before gs has exited with code 0 and left a non-empty output, and none at
\* all when gs failed
C13_ValidateToolOnlyAfterConverted ==
  \A r \in Requests :
    /\ \A i \in DOMAIN tools[r] :
         tools[r][i] \in {"probe", "validate"} =>
           /\ \E j \in 1..(i - 1) : tools[r][j] = "gs"
           /\ gs_result[r].returncode = 0
           /\ gs_result[r].output = "data"
    /\ (gs_result[r].returncode > 0 \/ GsSpawnFailed(r)) =>
         \A i \in DOMAIN tools[r] : tools[r][i] = "gs"

\* request r is inside convert_to_pdfua
InOrchestrator(r) == pc[r] \in {"probe", "gs", "validate"}

\* C14: a step of convert_to_pdfua deletes and releases nothing: it leaves
\* the deletion records and every file alone, but for what the gs process
\* writes at the request's own output path; the input file stays as it is;
\* every deletion is made by the handler's cleanup phase
C14_OrchestratorDeletesNothing ==
  [][\A r \in Requests :
       /\ (InOrchestrator(r) /\ pc'[r] # pc[r]) =>
            /\ unlinked'[r] = unlinked[r]
            /\ released'[r] = released[r]
            /\ cleanup_log'[r] = cleanup_log[r]
            /\ \A p \in Paths :
                 (p # output_path[r] \/ pc[r] # "gs") => files'[p] = files[p]
       /\ Len(unlinked'[r]) > Len(unlinked[r]) =>
            /\ pc[r] \in {"finally", "cleanup_output"}
            /\ files[unlinked'[r][Len(unlinked'[r])]] # "absent"
            /\ files'[unlinked'[r][Len(unlinked'[r])]] = "absent"]_vars

C14_Witness ==
  \E r \in Requests :
    /\ pc[r] = "branch"
    /\ tools[r] = <<"probe", "gs", "validate">>
    /\ success[r] = "False"
    /\ files[input_path[r]] # "absent"
    /\ files[output_path[r]] # "absent"
    /\ unlinked[r] = <<>>
    /\ released[r] = {}

\* the paths request r holds: allocated in the request in flight and not yet
\* released by it
Held(r) ==
  IF pc[r] \in {"start", "complete"} THEN {}
  ELSE Range(created[r]) \ released[r]

\* C15: with several requests in flight no path is held by two of them, a
\* cleanup deletes only paths its own request allocated, and the input file
\* of a request that is converting is not deleted under it
C15_NoSharedPaths ==
  \A r \in Requests :
    /\ Range(unlinked[r]) \subseteq Range(created[r])
    /\ InOrchestrator(r) => files[input_path[r]] # "absent"
    /\ \A q \in Requests \ {r} : Held(r) \cap Held(q) = {}

\* C16: when a deletion fails in the cleanup phase, the error is logged, the
\* response chosen before is returned, and the release of the other temp
\* file is still attempted
C16_CleanupErrorsIndependent ==
  \A r \in Requests :
    (Done(r) /\ UnlinkFailed(r)) =>
      /\ resp[r] # NoResp
      /\ fault[r] = NoFault
      /\ input_path[r] \in released[r]
      /\ success[r] = "False" => output_path[r] \in released[r]

\* a structured response: a 200 file stream, or a 400 or 500 with a JSON
\* error body
Structured(response) ==
  \/ /\ response.status = 200
     /\ response.kind = "file"
     /\ response.path \in Paths
  \/ /\ response.status \in {400, 500}
     /\ response.kind = "json"
     /\ response.error # <<>>

C18_OkOnlyAfterGsZero ==
  \A r \in Requests :
    /\ pc[r] = "gs" => (input_path[r] \in Paths /\ files[input_path[r]] = "data")
    /\ resp[r].status = 200 =>
         /\ Count(tools[r], "gs") = 1
         /\ gs_result[r] # NoGs
         /\ gs_result[r].returncode = 0
         /\ success[r] = "True"
    /\ (Done(r) /\ (gs_result[r] = NoGs \/ gs_result[r].returncode # 0)) =>
         resp[r].status \in {400, 500}

C18_Witness ==
  \E r \in Requests :
    /\ pc[r] = "complete"
    /\ resp[r].status = 200
    /\ resp[r].path = output_path[r]
    /\ gs_result[r].returncode = 0
    /\ tools[r] = <<"probe", "gs">>

\* C19: the conformance check is run only in a request whose probe succeeded
\* and whose gs run exited 0, and its command names that request's own
\* output path; it never runs after a failed conversion
C19_ValidateOnlyWhenAvailableAndConverted ==
  \A r \in Requests :
    /\ Count(tools[r], "validate") > 0 =>
         /\ probe[r] = "ok"
         /\ vera_available[r] = "True"
         /\ gs_result[r] # NoGs
         /\ gs_result[r].returncode = 0
         /\ validate_cmd[r] = <<"verapdf", "--flavour", "pdfua-1", output_path[r]>>
         /\ output_path[r] \in Range(created[r])
         /\ output_path[r] # input_path[r]
    /\ Count(tools[r], "validate") = 0 => validate_cmd[r] = <<>>
    /\ pc[r] = "validate" => (probe[r] = "ok" /\ gs_result[r].returncode = 0)

C19_Witness ==
  \E r \in Requests :
    /\ Done(r)
    /\ tools[r] = <<"probe", "gs", "validate">>
    /\ validate_rc[r] = 0
    /\ validate_cmd[r][4] = output_path[r]
    /\ resp[r].status = 200

\* the orchestration of request r is over: convert_to_pdfua has returned its
\* pair, or the request was rejected or faulted before reaching it
Terminal(r) ==
  \/ success[r] \in {"True", "False"}
  \/ resp[r].status \in {400, 500}

\* C20: every request received reaches a terminal orchestration state and
\* from there returns its response, runs its cleanup and completes, also
\* with another request in flight
C20_EveryRequestCompletes ==
  \A r \in Requests :
    /\ (pc[r] # "start") ~> Terminal(r)
    /\ (pc[r] # "start") ~> (pc[r] = "complete" /\ resp[r] # NoResp)
    /\ (pc[r] \in {"probe", "gs", "validate"}) ~>
         (pc[r] \in {"finally", "cleanup_output", "returned"})

C20_Witness ==
  \E r \in Requests : \E q \in Requests \ {r} :
    /\ pc[r] = "complete"
    /\ tools[r] # <<>>
    /\ pc[q] \in {"gs", "validate", "branch", "finally"}

====
